---- MODULE Spec2Model ----
(***************************************************************************)
(* News Summariser API (src/app/main.py): the two request handlers         *)
(* fetch_and_summarise_news (GET /fetch_news) and summarize_article        *)
(* (POST /summarize_article), each with its single outbound call.          *)
(*                                                                         *)
(* The handlers are `async def` functions that make blocking calls, so the *)
(* event loop runs one request at a time: a request is received (its       *)
(* parameters are validated and the outbound call is issued), the external *)
(* provider answers, and the rest of the handler runs to its response.     *)
(*                                                                         *)
(* Strings that the code inspects (content, model text, error text) are    *)
(* sequences of characters / literal fragments; JSON values carry a kind   *)
(* tag so that a missing key, a null and a string are told apart.          *)
(***************************************************************************)
EXTENDS Integers, Sequences, FiniteSets, TLC

VARIABLES pc, request, news_response, llm_result, http_response,
          newsCalls, llmCalls, stdout, order

vars == <<pc, request, news_response, llm_result, http_response,
          newsCalls, llmCalls, stdout, order>>

----------------------------------------------------------------------------
\* Bounds of the model

MaxArticles == 6
MaxContentLen == 2
MaxTextLen == 3

----------------------------------------------------------------------------
\* Strings

Chars == {" ", "\n", "a"}

StrUpTo(n) == UNION {[1..k -> Chars] : k \in 0..n}

IsSpace(c) == c \in {" ", "\n"}

RECURSIVE LStrip(_)
LStrip(s) == IF s # <<>> /\ IsSpace(Head(s)) THEN LStrip(Tail(s)) ELSE s

RECURSIVE RStrip(_)
RStrip(s) ==
    IF s # <<>> /\ IsSpace(s[Len(s)]) THEN RStrip(SubSeq(s, 1, Len(s) - 1)) ELSE s

\* str.strip()
Strip(s) == RStrip(LStrip(s))

\* t occurs in s as a contiguous substring
Contains(s, t) ==
    \E i \in 1..(Len(s) + 1) : i + Len(t) - 1 <= Len(s) /\ SubSeq(s, i, i + Len(t) - 1) = t

----------------------------------------------------------------------------
\* JSON values of the news provider's payload

Missing == "<missing>"
Null == "<null>"
Omitted == "<omitted>"

IsStr(v) == v \notin {Missing, Null}

\* dict.get(key, default): the default is used only when the key is absent
Get(v, default) == IF v = Missing THEN default ELSE v

GEMINI_MODEL_NAME == "gemini-2.0-flash-lite"

----------------------------------------------------------------------------
\* HTTP responses

NoResponse ==
    [status |-> 0, kind |-> "none", detail |-> <<>>, articles |-> <<>>,
     summary |-> <<>>, exc |-> ""]

\* raise HTTPException(status_code=..., detail=...)
HTTPException(status, detail) ==
    [status |-> status, kind |-> "error", detail |-> detail, articles |-> <<>>,
     summary |-> <<>>, exc |-> ""]

\* an exception no handler catches leaves the route: the framework answers 500
Unhandled(exc) ==
    [status |-> 500, kind |-> "unhandled", detail |-> <<>>, articles |-> <<>>,
     summary |-> <<>>, exc |-> exc]

\* a body that fails the request model: the framework answers 422 and the
\* handler is never entered
RequestValidationError ==
    [status |-> 422, kind |-> "validation", detail |-> <<>>, articles |-> <<>>,
     summary |-> <<>>, exc |-> ""]

\* return articles   (response_model=List[Article])
ArticlesResponse(articles) ==
    [status |-> 200, kind |-> "articles", detail |-> <<>>, articles |-> articles,
     summary |-> <<>>, exc |-> ""]

\* return SummaryResponse(summary=summary)
SummaryResponse(summary) ==
    [status |-> 200, kind |-> "summary", detail |-> <<>>, articles |-> <<>>,
     summary |-> summary, exc |-> ""]

----------------------------------------------------------------------------
\* What the news provider can answer

FieldValues(s) == {Missing, Null, s}

Sources ==
    {[kind |-> "missing", name |-> Missing], [kind |-> "null", name |-> Missing]}
    \cup [kind : {"object"}, name : FieldValues("BBC")]

NonObjectArticle ==
    [kind |-> "other", title |-> Missing, url |-> Missing, description |-> Missing,
     source |-> [kind |-> "missing", name |-> Missing]]

ProviderArticles ==
    [kind : {"object"}, title : FieldValues("Headline"), url : FieldValues("http://x"),
     description : FieldValues("Text"), source : Sources]
    \cup {NonObjectArticle}

FullArticle ==
    [kind |-> "object", title |-> "Headline", url |-> "http://x",
     description |-> "Text", source |-> [kind |-> "object", name |-> "BBC"]]

BareArticle ==
    [kind |-> "object", title |-> Missing, url |-> Missing, description |-> Missing,
     source |-> [kind |-> "missing", name |-> Missing]]

SampleArticles == {FullArticle, BareArticle}

\* article lists: every shape of one article, alone and after a sample article,
\* and lists of up to MaxArticles sample articles
ArticleLists ==
    {<<a>> : a \in ProviderArticles}
    \cup {<<a, b>> : a \in SampleArticles, b \in ProviderArticles}
    \cup UNION {[1..n -> SampleArticles] : n \in 0..MaxArticles}

ArticlesValues ==
    {[kind |-> k, items |-> <<>>] : k \in {"missing", "null", "other"}}
    \cup {[kind |-> "list", items |-> l] : l \in ArticleLists}

NoArticles == [kind |-> "missing", items |-> <<>>]

\* the body: not JSON at all, JSON that is not an object, or an object
Bodies ==
    {[kind |-> k, articles |-> NoArticles] : k \in {"invalid", "nonobject"}}
    \cup {[kind |-> "object", articles |-> a] : a \in ArticlesValues}

NetworkErrors == {<<"Connection refused">>, <<"Read timed out">>}

\* 304 carries no body and is not an error for raise_for_status
Statuses == {200, 304, 401, 500}

NoNewsResponse ==
    [kind |-> "none", err |-> <<>>, status |-> 0,
     body |-> [kind |-> "invalid", articles |-> NoArticles]]

NewsResponses ==
    {[kind |-> "network_error", err |-> e, status |-> 0,
      body |-> [kind |-> "invalid", articles |-> NoArticles]] : e \in NetworkErrors}
    \cup {[kind |-> "http", err |-> <<>>, status |-> st,
           body |-> [kind |-> "invalid", articles |-> NoArticles]] : st \in Statuses \ {200}}
    \cup {[kind |-> "http", err |-> <<>>, status |-> 200, body |-> b] : b \in Bodies}

----------------------------------------------------------------------------
\* GET /fetch_news

CategoryQueries == {Omitted, "technology", "sports"}

\* category: str = Query("technology", ...)
CategoryParam(q) == IF q = Omitted THEN "technology" ELSE q

news_params_no_category(category) ==
    [category |-> "technology", language |-> "en", apiKey |-> "NEWS_API_KEY",
     pageSize |-> 5]

news_params(category) ==
    [category |-> category, language |-> "en", apiKey |-> "NEWS_API_KEY",
     pageSize |-> 5]

\* requests.get raised (connection error, timeout, ...)
GetRaises(r) == r.kind = "network_error"

\* news_response.raise_for_status(): HTTPError for 4xx and 5xx
RaiseForStatusRaises(r) == r.kind = "http" /\ r.status >= 400 /\ r.status < 600

\* news_response.json(): requests' JSONDecodeError, a RequestException
JsonRaises(r) == r.kind = "http" /\ r.body.kind = "invalid"

\* str(e) of the RequestException the try block caught
RequestExceptionText(r) ==
    IF GetRaises(r) THEN r.err
    ELSE IF RaiseForStatusRaises(r)
         THEN <<ToString(r.status),
                IF r.status < 500 THEN " Client Error" ELSE " Server Error">>
         ELSE <<"Expecting value">>

NewsFailureNoText(r) == HTTPException(503, <<"NewsAPI request failed: ">>)

\* except requests.exceptions.RequestException as e: raise HTTPException(503, ...)
NewsFailure(r) ==
    HTTPException(503, <<"NewsAPI request failed: ">> \o RequestExceptionText(r))

\* not news_data.get("articles")
ArticlesFalsy(articles) ==
    articles.kind \in {"missing", "null"}
    \/ (articles.kind = "list" /\ articles.items = <<>>)

\* class Article(BaseModel): title: str, url: str, the other two Optional[str]
ArticleValid(m) == IsStr(m.title) /\ IsStr(m.url)

MapArticleNoDefaults(a) ==
    [title |-> a.title, url |-> a.url, description |-> a.description,
     source_name |-> IF a.source.kind = "object" THEN a.source.name ELSE Null]

\* Article(title=article.get('title', ...), ...)
MapArticle(a) ==
    [title |-> Get(a.title, "No Title Available"),
     url |-> Get(a.url, "#"),
     description |-> Get(a.description, "No description available."),
     source_name |->
        IF a.source.kind = "missing" THEN "Unknown Source"
        ELSE IF a.source.kind = "object" THEN Get(a.source.name, "Unknown Source")
        ELSE Null]

\* building the Article raises: article.get on a non-dict, .get on a null
\* source (AttributeError), or a null title / url (pydantic ValidationError)
ArticleException(a) ==
    IF a.kind # "object" \/ a.source.kind = "null" THEN "AttributeError"
    ELSE IF ~ArticleValid(MapArticle(a)) THEN "ValidationError"
    ELSE ""

MapArticlesFirstFive(items) ==
    [i \in 1..(IF Len(items) < 5 THEN Len(items) ELSE 5) |-> MapArticle(items[i])]

\* [Article(...) for article in news_data["articles"]]
MapArticles(items) == [i \in 1..Len(items) |-> MapArticle(items[i])]

\* the handler from the provider's answer to its response
fetch_and_summarise_news(r) ==
    IF GetRaises(r) \/ RaiseForStatusRaises(r) \/ JsonRaises(r) THEN NewsFailure(r)
    ELSE IF r.body.kind # "object" THEN Unhandled("AttributeError")
    ELSE IF ArticlesFalsy(r.body.articles) THEN Unhandled("TypeError")
    ELSE IF r.body.articles.kind # "list" THEN Unhandled("AttributeError")
    ELSE LET items == r.body.articles.items
             bad == {i \in 1..Len(items) : ArticleException(items[i]) # ""}
         IN IF bad # {}
            THEN Unhandled(ArticleException(items[CHOOSE i \in bad : \A j \in bad : i <= j]))
            ELSE ArticlesResponse(MapArticles(items))

----------------------------------------------------------------------------
\* POST /summarize_article

\* request bodies: with no content field, or with a content string
SummarizeBodies ==
    {[has_content |-> FALSE, content |-> <<>>]}
    \cup {[has_content |-> TRUE, content |-> c] : c \in StrUpTo(MaxContentLen)}

\* what the LLM call can do: generate_content raises, the response carries no
\* text (response.text raises), or text is returned
LlmErrors == {<<"401 API key not valid">>, <<"429 quota exceeded">>}

NoLlmResult == [kind |-> "none", err |-> <<>>, text |-> <<>>]

LlmResults ==
    {[kind |-> "raise", err |-> e, text |-> <<>>] : e \in LlmErrors}
    \cup {[kind |-> "no_text", err |-> <<"response.text requires a valid Part">>,
           text |-> <<>>]}
    \cup {[kind |-> "text", err |-> <<>>, text |-> t] : t \in StrUpTo(MaxTextLen)}

ContentIsEmpty(content) == content = <<>>

\* not request.content or not request.content.strip()
ContentIsBlank(content) == content = <<>> \/ Strip(content) = <<>>

\* the f-string prompt around request.content
Prompt(content) ==
    <<"Based on the following news article content, provide a clear and concise summary of about 3-4 sentences. Focus on the key takeaway:\n\n---\n\n">>
    \o content \o <<"\n\n---\n\nSummary:">>

LlmCall(content) == [model |-> GEMINI_MODEL_NAME, prompt |-> Prompt(content)]

summarize_article_call_first(body) ==
    IF ~body.has_content
    THEN [pc |-> "done", http_response |-> RequestValidationError,
          llmCalls |-> <<>>, order |-> <<"respond">>]
    ELSE IF ContentIsBlank(body.content)
    THEN [pc |-> "done",
          http_response |-> HTTPException(400, <<"Content cannot be empty.">>),
          llmCalls |-> <<LlmCall(body.content)>>, order |-> <<"llm_generate", "respond">>]
    ELSE [pc |-> "llm_wait", http_response |-> NoResponse,
          llmCalls |-> <<LlmCall(body.content)>>, order |-> <<"llm_generate">>]

\* the route up to the outbound call: request model, validation gate, the call
summarize_article_begin(body) ==
    IF ~body.has_content
    THEN [pc |-> "done", http_response |-> RequestValidationError,
          llmCalls |-> <<>>, order |-> <<"respond">>]
    ELSE IF ContentIsBlank(body.content)
    THEN [pc |-> "done",
          http_response |-> HTTPException(400, <<"Content cannot be empty.">>),
          llmCalls |-> <<>>, order |-> <<"respond">>]
    ELSE [pc |-> "llm_wait", http_response |-> NoResponse,
          llmCalls |-> <<LlmCall(body.content)>>, order |-> <<"llm_generate">>]

GeminiFailureSilent(e) ==
    [stdout |-> <<>>,
     http_response |-> HTTPException(503, <<"Gemini API request failed: ">> \o e),
     order |-> <<"respond">>]

\* except Exception as e: print(...); raise HTTPException(503, ...)
GeminiFailure(e) ==
    [stdout |-> << <<"DEBUG: Gemini API request failed. Error: ">> \o e >>,
     http_response |-> HTTPException(503, <<"Gemini API request failed: ">> \o e),
     order |-> <<"print", "respond">>]

SummaryTextNoPlaceholder(text) == Strip(text)

\* summary = response.text.strip(); if not summary: summary = <placeholder>
SummaryText(text) ==
    IF Strip(text) = <<>>
    THEN <<"The AI model could not generate a summary for this content.">>
    ELSE Strip(text)

\* the handler from the LLM's answer to its response
summarize_article_end(res) ==
    IF res.kind \in {"raise", "no_text"} THEN GeminiFailure(res.err)
    ELSE [stdout |-> <<>>, http_response |-> SummaryResponse(SummaryText(res.text)),
          order |-> <<"respond">>]

----------------------------------------------------------------------------
\* The service

Init ==
    /\ pc = "idle"
    /\ request = [route |-> "none", category |-> Omitted, has_content |-> FALSE,
                  content |-> <<>>]
    /\ news_response = NoNewsResponse
    /\ llm_result = NoLlmResult
    /\ http_response = NoResponse
    /\ newsCalls = <<>>
    /\ llmCalls = <<>>
    /\ stdout = <<>>
    /\ order = <<>>

\* GET /fetch_news arrives: the handler builds news_params and issues the GET
FetchNewsRequest ==
    /\ pc \in {"idle", "done"}
    /\ \E q \in CategoryQueries :
         /\ request' = [route |-> "fetch_news", category |-> q,
                        has_content |-> FALSE, content |-> <<>>]
         /\ newsCalls' = <<news_params(CategoryParam(q))>>
    /\ pc' = "news_wait"
    /\ news_response' = NoNewsResponse
    /\ llm_result' = NoLlmResult
    /\ http_response' = NoResponse
    /\ llmCalls' = <<>>
    /\ stdout' = <<>>
    /\ order' = <<"news_get">>

\* the news provider answers (or the transport fails); the handler finishes
NewsProviderAnswers ==
    /\ pc = "news_wait"
    /\ \E r \in NewsResponses :
         /\ news_response' = r
         /\ http_response' = fetch_and_summarise_news(r)
    /\ order' = Append(order, "respond")
    /\ pc' = "done"
    /\ UNCHANGED <<request, llm_result, newsCalls, llmCalls, stdout>>

\* POST /summarize_article arrives
SummarizeRequest ==
    /\ pc \in {"idle", "done"}
    /\ \E b \in SummarizeBodies :
         LET next == summarize_article_begin(b) IN
         /\ request' = [route |-> "summarize_article", category |-> Omitted,
                        has_content |-> b.has_content, content |-> b.content]
         /\ pc' = next.pc
         /\ http_response' = next.http_response
         /\ llmCalls' = next.llmCalls
         /\ order' = next.order
    /\ news_response' = NoNewsResponse
    /\ llm_result' = NoLlmResult
    /\ newsCalls' = <<>>
    /\ stdout' = <<>>

\* the LLM call returns or raises; the handler finishes
LlmAnswers ==
    /\ pc = "llm_wait"
    /\ \E res \in LlmResults :
         LET next == summarize_article_end(res) IN
         /\ llm_result' = res
         /\ http_response' = next.http_response
         /\ stdout' = next.stdout
         /\ order' = order \o next.order
    /\ pc' = "done"
    /\ UNCHANGED <<request, news_response, newsCalls, llmCalls>>

Next == FetchNewsRequest \/ NewsProviderAnswers \/ SummarizeRequest \/ LlmAnswers

Spec == Init /\ [][Next]_vars

----------------------------------------------------------------------------
\* Properties

DoneFetch == pc = "done" /\ request.route = "fetch_news"

DoneSummarize == pc = "done" /\ request.route = "summarize_article"

\* the provider call succeeded and its body is a JSON object
NewsSucceeded ==
    /\ news_response.kind = "http"
    /\ news_response.status = 200
    /\ news_response.body.kind = "object"

ProviderItems == news_response.body.articles.items

\* an article as the provider documents it: an object whose title and url are
\* strings when present and whose source is an object when present
WellFormedArticle(a) ==
    a.kind = "object" /\ a.title # Null /\ a.url # Null /\ a.source.kind # "null"

NewsReturnedArticles ==
    /\ NewsSucceeded
    /\ news_response.body.articles.kind = "list"
    /\ ProviderItems # <<>>
    /\ \A i \in 1..Len(ProviderItems) : WellFormedArticle(ProviderItems[i])

IsWhitespaceOnly(s) == \A i \in 1..Len(s) : IsSpace(s[i])

\* s is t without its leading and trailing whitespace
IsTrimOf(s, t) ==
    \E i \in 1..(Len(t) + 1) : \E j \in 0..Len(t) :
        /\ s = SubSeq(t, i, j)
        /\ \A k \in 1..Len(t) : (k < i \/ k > j) => IsSpace(t[k])
        /\ s # <<>> => (~IsSpace(s[1]) /\ ~IsSpace(s[Len(s)]))

Placeholder == <<"The AI model could not generate a summary for this content.">>

\* C1: a fetch-news request whose provider call succeeds with `articles`
\* missing or an empty list is answered 200 with an empty array, never an error.
C1_EmptyArticlesGiveEmptyArray ==
    (DoneFetch /\ NewsSucceeded
       /\ (news_response.body.articles.kind = "missing"
           \/ (news_response.body.articles.kind = "list" /\ ProviderItems = <<>>)))
    => (http_response.status = 200 /\ http_response.kind = "articles"
        /\ http_response.articles = <<>>)

\* C2 as stated: summarize-article answers 400 "Content cannot be empty." when
\* content is absent, empty or whitespace-only.
C2_BlankOrAbsentIs400 ==
    (DoneSummarize /\ (~request.has_content \/ IsWhitespaceOnly(request.content)))
    => (http_response.status = 400
        /\ http_response.detail = <<"Content cannot be empty.">>)

\* C2 amended: summarize-article answers 400 "Content cannot be empty." when
\* content is the empty string or whitespace-only; a body without content is
\* answered 422 by request validation.
C2_BlankIs400AbsentIs422 ==
    DoneSummarize =>
       /\ (request.has_content /\ IsWhitespaceOnly(request.content))
            => (http_response.status = 400
                /\ http_response.detail = <<"Content cannot be empty.">>)
       /\ ~request.has_content => http_response.status = 422

C2_Witness ==
    /\ DoneSummarize
    /\ request.has_content
    /\ request.content # <<>>
    /\ IsWhitespaceOnly(request.content)
    /\ http_response.status = 400

\* C3: whatever the provider does, a request that made its outbound call ends
\* in 200, 400 or 503 and never in an unhandled exception (500).
C3_NoUnmappedFailure ==
    (pc = "done" /\ (newsCalls # <<>> \/ llmCalls # <<>>))
    => (http_response.kind # "unhandled" /\ http_response.status \in {200, 400, 503})

\* C4: N provider articles give 200 with exactly N Article records, one per
\* provider article in the provider's order, also when N > 5.
C4_AllArticlesInOrder ==
    (DoneFetch /\ NewsReturnedArticles)
    => /\ http_response.status = 200
       /\ http_response.kind = "articles"
       /\ Len(http_response.articles) = Len(ProviderItems)
       /\ \A i \in 1..Len(ProviderItems) :
            LET a == ProviderItems[i]
                m == http_response.articles[i]
            IN /\ a.title # Missing => m.title = a.title
               /\ a.title = Missing => m.title \notin {"Headline"}
               /\ a.url # Missing => m.url = a.url
               /\ a.url = Missing => m.url \notin {"http://x"}

C4_Witness ==
    /\ DoneFetch
    /\ NewsReturnedArticles
    /\ http_response.status = 200
    /\ Len(http_response.articles) > 5
    /\ Len(ProviderItems) > 5
    /\ ProviderItems[1] # ProviderItems[6]
    /\ http_response.articles[1] # http_response.articles[6]

\* C5: every returned Article field is the provider's value when supplied and
\* the fixed placeholder when missing; missing fields never fail the request.
C5_PlaceholdersForMissingFields ==
    DoneFetch =>
       /\ (NewsSucceeded /\ news_response.body.articles.kind = "list"
             /\ ProviderItems # <<>>
             /\ \A i \in 1..Len(ProviderItems) :
                  LET a == ProviderItems[i]
                  IN /\ a.kind = "object"
                     /\ a.title \in {Missing, "Headline"}
                     /\ a.url \in {Missing, "http://x"}
                     /\ a.description \in {Missing, "Text"}
                     /\ a.source.kind \in {"missing", "object"}
                     /\ a.source.name \in {Missing, "BBC"})
            => http_response.status = 200
       /\ http_response.kind = "articles" =>
            /\ Len(http_response.articles) <= Len(ProviderItems)
            /\ \A i \in 1..Len(http_response.articles) :
                 LET a == ProviderItems[i]
                     m == http_response.articles[i]
                 IN /\ m.title =
                         (IF a.title = Missing THEN "No Title Available" ELSE a.title)
                    /\ m.url = (IF a.url = Missing THEN "#" ELSE a.url)
                    /\ m.description =
                         (IF a.description = Missing THEN "No description available."
                          ELSE a.description)
                    /\ m.source_name =
                         (IF a.source.kind = "missing" \/ a.source.name = Missing
                          THEN "Unknown Source" ELSE a.source.name)

C5_Witness ==
    /\ DoneFetch
    /\ http_response.status = 200
    /\ Len(http_response.articles) = 2
    /\ ProviderItems[1] = BareArticle
    /\ http_response.articles[1] =
         [title |-> "No Title Available", url |-> "#",
          description |-> "No description available.", source_name |-> "Unknown Source"]
    /\ ProviderItems[2].source.kind = "object"
    /\ ProviderItems[2].source.name = Missing
    /\ ProviderItems[2].title = "Headline"
    /\ http_response.articles[2].source_name = "Unknown Source"

\* the text of the error behind a failed provider call
UnderlyingNewsError ==
    IF news_response.kind = "network_error" THEN news_response.err
    ELSE IF news_response.status >= 400 THEN <<ToString(news_response.status)>>
    ELSE <<"Expecting value">>

FirstIndex(e) ==
    IF \E i \in 1..Len(order) : order[i] = e
    THEN CHOOSE i \in 1..Len(order) : order[i] = e /\ \A j \in 1..(i - 1) : order[j] # e
    ELSE 0

Count(e) == Cardinality({i \in 1..Len(order) : order[i] = e})

\* C7: a failed LLM call gives 503 whose detail contains the underlying error
\* text, and the failure is printed before the response is produced.
C7_LlmFailureIs503AndLogged ==
    (DoneSummarize /\ llm_result.kind \in {"raise", "no_text"})
    => /\ http_response.status = 503
       /\ Contains(http_response.detail, llm_result.err)
       /\ Len(stdout) = 1
       /\ Contains(stdout[1], llm_result.err)
       /\ FirstIndex("print") > 0
       /\ FirstIndex("print") < FirstIndex("respond")

C7_Witness ==
    /\ DoneSummarize
    /\ llm_result.kind = "no_text"
    /\ llm_result.err # <<>>
    /\ http_response.status = 503
    /\ stdout # <<>>

\* C8: a successful LLM call gives 200 with summary the trimmed text, or the
\* placeholder sentence when the trimmed text is empty; never an empty summary.
C8_SummaryTrimmedOrPlaceholder ==
    (DoneSummarize /\ llm_result.kind = "text")
    => /\ http_response.status = 200
       /\ http_response.kind = "summary"
       /\ http_response.summary # <<>>
       /\ IF IsWhitespaceOnly(llm_result.text)
          THEN http_response.summary = Placeholder
          ELSE IsTrimOf(http_response.summary, llm_result.text)

C8_Witness ==
    /\ DoneSummarize
    /\ llm_result.kind = "text"
    /\ llm_result.text # <<>>
    /\ IsWhitespaceOnly(llm_result.text)
    /\ http_response.status = 200
    /\ http_response.summary = Placeholder

\* C9: every fetch-news request issues exactly one outbound call, carrying the
\* request's category ("technology" when omitted), language "en" and page
\* size 5, on the success path and on every failure path.
C9_OneNewsCallWithParams ==
    /\ Len(newsCalls) <= 1
    /\ request.route = "fetch_news" =>
         /\ Len(newsCalls) = 1
         /\ Count("news_get") = 1
         /\ newsCalls[1].category =
              (IF request.category = Omitted THEN "technology" ELSE request.category)
         /\ newsCalls[1].language = "en"
         /\ newsCalls[1].pageSize = 5

C9_Witness ==
    /\ DoneFetch
    /\ request.category = "sports"
    /\ http_response.status = 503
    /\ Len(newsCalls) = 1
    /\ newsCalls[1].category = "sports"

\* C10 as stated: a request answered 400 has made no LLM call, every other
\* request makes exactly one LLM call before its response, never a second one.
C10_GateBeforeCall ==
    /\ Len(llmCalls) <= 1
    /\ DoneSummarize =>
         IF http_response.status = 400
         THEN llmCalls = <<>> /\ Count("llm_generate") = 0
         ELSE /\ Len(llmCalls) = 1
              /\ Count("llm_generate") = 1
              /\ FirstIndex("llm_generate") < FirstIndex("respond")

\* C10 amended: a request answered 400, or rejected with 422 by request
\* validation, has made no LLM call; every other request makes exactly one LLM
\* call before its response, never a second one.
C10_GateOrValidationBeforeCall ==
    /\ Len(llmCalls) <= 1
    /\ DoneSummarize =>
         IF http_response.status \in {400, 422}
         THEN llmCalls = <<>> /\ Count("llm_generate") = 0
         ELSE /\ Len(llmCalls) = 1
              /\ Count("llm_generate") = 1
              /\ FirstIndex("llm_generate") < FirstIndex("respond")

C10_Witness ==
    /\ DoneSummarize
    /\ llm_result.kind = "raise"
    /\ http_response.status = 503
    /\ Len(llmCalls) = 1
    /\ order = <<"llm_generate", "print", "respond">>

====
